---- MODULE Spec2Model ----
(***************************************************************************)
(* Model of nodes/load.cpp (nodelet_or_node): the process that either runs *)
(* a nodelet standalone or loads it into a nodelet manager and supervises  *)
(* it until a shutdown trigger arrives.                                    *)
(*                                                                         *)
(* Strings are modelled as sequences of tokens, so that concatenation is   *)
(* \o, the empty string is <<>>, and find('/') is a search for the token   *)
(* "/".                                                                    *)
(***************************************************************************)
EXTENDS Integers, Sequences, FiniteSets, TLC

(* ------------------------------ bounds -------------------------------- *)

\* Longest command line, counted without the program name.
MaxArgs == 5
\* Most invocations of the two trigger handlers (SIGINT, "shutdown" XML-RPC).
MaxTriggers == 2
\* Most entries of the process-wide remapping table.
MaxRemaps == 2

(* --------------------------- input alphabets -------------------------- *)

ProgramName == <<"nodelet_or_node">>
NodeName == <<"/", "node">>
NoBondFlag == <<"--no-bond">>
TypeWords == {<<"pkg", "/", "Foo">>, <<"Foo">>}
ManagerWords == {<<"manager">>}
ExtraWords == {NoBondFlag, <<"arg">>}
HexWords == {<<"1f">>}
ReasonWords == {<<"r1">>, <<"r2">>}
RemapKeys == {<<"a">>, <<"c">>}
RemapTargets == {<<"b">>, <<"d">>}

\* The command lines of shape <type> [<manager> [<extra>...]], program name first.
ArgvOfLen(n) ==
    { s \in [1..(n + 1) -> TypeWords \cup ManagerWords \cup ExtraWords \cup {ProgramName}] :
        /\ s[1] = ProgramName
        /\ n >= 1 => s[2] \in TypeWords
        /\ n >= 2 => s[3] \in ManagerWords
        /\ \A i \in 4..(n + 1) : s[i] \in ExtraWords }
ArgvSet == UNION { ArgvOfLen(n) : n \in 0..MaxArgs }

\* The remapping tables: a std::map, so at most one target per source name.
RemapTables ==
    { m \in SUBSET (RemapKeys \X RemapTargets) :
        /\ Cardinality(m) <= MaxRemaps
        /\ \A p, q \in m : p[1] = q[1] => p = q }

\* The values a "shutdown" XML-RPC request may carry: a non-array value, or an
\* array of 1 or 2 elements (element 1, counted from 0, is the reason).
NonArrayParams == [type |-> "string", items |-> <<>>]
ArrayParams(items) == [type |-> "array", items |-> items]
ShutdownParams ==
    {NonArrayParams, ArrayParams(<< <<"caller">> >>)}
        \cup { ArrayParams(<< <<"caller">>, r >>) : r \in ReasonWords }

(* ------------------------------- state -------------------------------- *)

VARIABLES
    pc,               \* position of main()
    exitCode,         \* value returned by main(), -1 while running
    argv,             \* the command line without ROS arguments
    args,             \* main's vector args
    pkgAndNodelet,    \* main's pkgAndNodelet
    manager,          \* main's manager
    bondId,           \* main's bondId
    remappings,       \* ros::names::getRemappings()
    paramServer,      \* the parameter stored under each name (NoParam if none)
    rosOk,            \* roscpp is started and not shut down
    managerUp,        \* the manager advertises load_nodelet and unload_nodelet
    requestShutdown,  \* the global flag
    sigintHandler,    \* who handles SIGINT: "roscpp" or "custom"
    shutdownBinding,  \* who handles the "shutdown" XML-RPC: "roscpp" or "custom"
    bondStarted,      \* bond.start() was called
    bondBroken,       \* bond.isBroken()
    bondReleased,     \* bond.breakBond() was called
    loadRequest,      \* the NodeletLoad request sent, NoRequest if none
    unloadRequest,    \* the NodeletUnload request sent, NoRequest if none
    loadCalls,        \* number of load RPCs issued
    unloadCalls,      \* number of unload RPCs issued
    unloadAttempts,   \* number of calls of unloadNodelet
    unloadResult,     \* what unloadNodelet returned: "none", "true", "false"
    embeddedLoaded,   \* name and type of the nodelet loaded in-process, or NoRequest
    leftLoopBy,       \* how the monitoring loop was left: "none", "latch", "bond"
    log,              \* the ROS_* messages of this file, in order
    lastAck,          \* the result written by the last shutdownCallback
    served,           \* number of SIGINTs and shutdown requests served so far
    lastTrigger       \* the last of them: its handler and what it carried

vars == <<pc, exitCode, argv, args, pkgAndNodelet, manager, bondId, remappings,
          paramServer, rosOk, managerUp, requestShutdown, sigintHandler,
          shutdownBinding, bondStarted, bondBroken, bondReleased, loadRequest,
          unloadRequest, loadCalls, unloadCalls, unloadAttempts, unloadResult,
          embeddedLoaded, leftLoopBy, log, lastAck, served, lastTrigger>>

\* What main() owns; the trigger handlers and the environment never write it.
mainVars == <<pc, exitCode, argv, args, pkgAndNodelet, manager, bondId, remappings,
              paramServer, sigintHandler, shutdownBinding, bondStarted, bondReleased,
              loadRequest, unloadRequest, loadCalls, unloadCalls, unloadAttempts,
              unloadResult, embeddedLoaded, leftLoopBy>>

NoRequest == [none |-> TRUE]
NoParam == "no_param"
NoAck == <<>>
NoTrigger == [handler |-> "none"]

(* ------------------------------ helpers ------------------------------- *)

\* std::string::find('/') != npos
\* Every type taken for well formed.
HasSlash_Always(s) == TRUE
HasSlash(s) == \E i \in 1..Len(s) : s[i] = "/"

\* args.erase(args.begin())
EraseFirst(s) == SubSeq(s, 2, Len(s))

\* ROS_INFO / ROS_WARN / ROS_ERROR / ROS_FATAL
Logged(level, what, arg) == Append(log, <<level, what, arg>>)

\* ros::xmlrpc::responseInt(1, "", 0)
ResponseInt(code, msg, response) == <<code, msg, response>>

\* ros::service::exists(): the service is advertised and reachable from this node.
ServiceExists == managerUp /\ rosOk

\* The order of std::map<std::string, std::string> on the source names.
KeyRank(k) == IF k = <<"a">> THEN 1 ELSE 2
RECURSIVE SortedPairs(_)
SortedPairs(m) ==
    IF m = {} THEN <<>>
    ELSE LET first == CHOOSE p \in m : \A q \in m : KeyRank(p[1]) <= KeyRank(q[1])
         IN <<first>> \o SortedPairs(m \ {first})

\* The two parallel vectors loadNodelet fills from the remapping table.
RemapSources(m) == [i \in 1..Cardinality(m) |-> SortedPairs(m)[i][1]]
\* The targets filled from the far end of the table.
RemapTargetsOf_Reversed(m) ==
    [i \in 1..Cardinality(m) |-> SortedPairs(m)[Cardinality(m) + 1 - i][2]]
RemapTargetsOf(m) == [i \in 1..Cardinality(m) |-> SortedPairs(m)[i][2]]

(* -------------------------------- Init -------------------------------- *)

Init ==
    /\ pc = "start"
    /\ exitCode = -1
    /\ argv \in ArgvSet
    /\ args = <<>>
    /\ pkgAndNodelet = <<>>
    /\ manager = <<>>
    /\ bondId = <<>>
    /\ remappings \in RemapTables
    /\ paramServer = [n \in {NodeName} |-> "cfg"]
    /\ rosOk = TRUE
    /\ managerUp \in BOOLEAN
    /\ requestShutdown = 0
    /\ sigintHandler = "roscpp"
    /\ shutdownBinding = "roscpp"
    /\ bondStarted = FALSE
    /\ bondBroken = FALSE
    /\ bondReleased = FALSE
    /\ loadRequest = NoRequest
    /\ unloadRequest = NoRequest
    /\ loadCalls = 0
    /\ unloadCalls = 0
    /\ unloadAttempts = 0
    /\ unloadResult = "none"
    /\ embeddedLoaded = NoRequest
    /\ leftLoopBy = "none"
    /\ log = <<>>
    /\ lastAck = NoAck
    /\ served = 0
    /\ lastTrigger = NoTrigger

(* ------------------------- the trigger handlers ------------------------ *)

\* The handler flipping the flag instead of setting it.
nodeletLoaderSigIntHandler_Toggles ==
    /\ requestShutdown' = 1 - requestShutdown
    /\ UNCHANGED <<log, lastAck, rosOk>>

\* void nodeletLoaderSigIntHandler(int)
nodeletLoaderSigIntHandler ==
    /\ requestShutdown' = 1
    /\ UNCHANGED <<log, lastAck, rosOk>>

\* void shutdownCallback(XmlRpcValue& params, XmlRpcValue& result)
NumParams(params) == IF params.type = "array" THEN Len(params.items) ELSE 0
\* The reason looked for one element too far.
HasReason_OffByOne(params) == NumParams(params) > 2

\* Line 48: if (num_params > 1)
HasReason(params) == NumParams(params) > 1

\* The acknowledgement written only in the branch that sets the flag.
shutdownCallback_AckOnlyWithReason(params) ==
    /\ IF HasReason(params)
         THEN /\ log' = Logged("WARN", "shutdown_request", params.items[2])
              /\ requestShutdown' = 1
              /\ lastAck' = ResponseInt(1, <<>>, 0)
         ELSE UNCHANGED <<log, requestShutdown, lastAck>>
    /\ UNCHANGED rosOk

\* Lines 43-56: set the flag if a reason came along; always answer (1, "", 0).
shutdownCallback(params) ==
    /\ IF HasReason(params)
         THEN /\ log' = Logged("WARN", "shutdown_request", params.items[2])
              /\ requestShutdown' = 1
         ELSE UNCHANGED <<log, requestShutdown>>
    /\ lastAck' = ResponseInt(1, <<>>, 0)
    /\ UNCHANGED rosOk

\* The handlers roscpp installs itself and this program replaces: SIGINT and a
\* "shutdown" request with a reason both shut roscpp down.
RoscppSigintHandler ==
    /\ rosOk' = FALSE
    /\ UNCHANGED <<log, lastAck, requestShutdown>>
\* roscpp's default callback setting this program's flag as well.
RoscppShutdownCallback_SetsFlag(params) ==
    /\ rosOk' = IF HasReason(params) THEN FALSE ELSE rosOk
    /\ lastAck' = ResponseInt(1, <<>>, 0)
    /\ requestShutdown' = IF HasReason(params) THEN 1 ELSE requestShutdown
    /\ UNCHANGED log
RoscppShutdownCallback(params) ==
    /\ rosOk' = IF HasReason(params) THEN FALSE ELSE rosOk
    /\ lastAck' = ResponseInt(1, <<>>, 0)
    /\ UNCHANGED <<log, requestShutdown>>

\* roscpp is started (a NodeHandle exists) and main() has not returned.
Running == pc \notin {"start", "mode", "done"}

\* A SIGINT reaches the process.
Sigint ==
    /\ Running
    /\ served < MaxTriggers
    /\ served' = served + 1
    /\ lastTrigger' = [handler |-> sigintHandler, signal |-> "SIGINT"]
    /\ IF sigintHandler = "custom" THEN nodeletLoaderSigIntHandler ELSE RoscppSigintHandler
    /\ UNCHANGED <<mainVars, managerUp, bondBroken>>

\* A "shutdown" XML-RPC request is served (by the spinner or roscpp's XML-RPC thread).
ServeShutdown(params) ==
    /\ Running
    /\ rosOk
    /\ served < MaxTriggers
    /\ served' = served + 1
    /\ lastTrigger' = [handler |-> shutdownBinding, params |-> params]
    /\ IF shutdownBinding = "custom" THEN shutdownCallback(params)
                                      ELSE RoscppShutdownCallback(params)
    /\ UNCHANGED <<mainVars, managerUp, bondBroken>>
ShutdownRequest == \E params \in ShutdownParams : ServeShutdown(params)

(* --------------------------- the environment --------------------------- *)

\* The manager comes up and advertises its services.
ManagerStart ==
    /\ pc # "done"
    /\ ~managerUp
    /\ managerUp' = TRUE
    /\ UNCHANGED <<mainVars, rosOk, requestShutdown, bondBroken, log, lastAck,
                   served, lastTrigger>>

\* The manager goes away; a started bond may or may not have noticed yet.
ManagerCrash ==
    /\ pc # "done"
    /\ managerUp
    /\ managerUp' = FALSE
    /\ UNCHANGED <<mainVars, rosOk, requestShutdown, bondBroken, log, lastAck,
                   served, lastTrigger>>

\* The bond's heartbeat lapses (or the peer breaks the bond): isBroken() turns true.
BondBreaks ==
    /\ pc # "done"
    /\ bondStarted
    /\ ~bondBroken
    /\ bondBroken' = TRUE
    /\ UNCHANGED <<mainVars, rosOk, managerUp, requestShutdown, log, lastAck,
                   served, lastTrigger>>

(* ------------------------------- main() -------------------------------- *)

\* return <code> from main()
Exit(code) ==
    /\ pc' = "done"
    /\ exitCode' = code

\* Lines 151-166: drop the program name, take the nodelet type, check it.
CheckArgs ==
    /\ pc = "start"
    /\ LET rest == EraseFirst(argv)
       IN IF rest = <<>>
            THEN /\ Exit(1)
                 /\ UNCHANGED <<args, pkgAndNodelet, log>>
            ELSE /\ pkgAndNodelet' = rest[1]
                 /\ args' = EraseFirst(rest)
                 /\ IF ~HasSlash(rest[1])
                      THEN /\ Exit(2)
                           /\ log' = Logged("ERROR", "bad_type", rest[1])
                      ELSE /\ pc' = "mode"
                           /\ UNCHANGED <<exitCode, log>>
    /\ UNCHANGED <<argv, manager, bondId, remappings, paramServer, rosOk, managerUp,
                   requestShutdown, sigintHandler, shutdownBinding, bondStarted,
                   bondBroken, bondReleased, loadRequest, unloadRequest, loadCalls,
                   unloadCalls, unloadAttempts, unloadResult, embeddedLoaded,
                   leftLoopBy, lastAck, served, lastTrigger>>

\* The --no-bond flag looked for nowhere.
BondWanted_Always(a) == TRUE

\* Line 197: a bond is used unless the first extra argument is --no-bond.
BondWanted(a) == a = <<>> \/ a[1] # NoBondFlag

\* Line 198: nodeName + "_" + toHexString(fromRandom())
MakeBondId(hex) == NodeName \o <<"_">> \o hex

\* Lines 168-201: standalone when no manager was given; otherwise take the manager,
\* decide on the bond id and construct the (not yet started) bond.
ChooseMode ==
    /\ pc = "mode"
    /\ IF args = <<>>
         THEN /\ pc' = "embeddedLoad"
              /\ UNCHANGED <<args, manager, bondId>>
         ELSE /\ manager' = args[1]
              /\ LET rest == EraseFirst(args)
                 IN IF BondWanted(rest)
                      THEN /\ \E hex \in HexWords : bondId' = MakeBondId(hex)
                           /\ args' = rest
                      ELSE /\ bondId' = <<>>
                           /\ args' = EraseFirst(rest)
              /\ pc' = "loadPrepare"
    /\ UNCHANGED <<exitCode, argv, pkgAndNodelet, remappings, paramServer, rosOk,
                   managerUp, requestShutdown, sigintHandler, shutdownBinding,
                   bondStarted, bondBroken, bondReleased, loadRequest, unloadRequest,
                   loadCalls, unloadCalls, unloadAttempts, unloadResult,
                   embeddedLoaded, leftLoopBy, log, lastAck, served, lastTrigger>>

\* The standalone nodelet loaded under its type name rather than the node's name.
StandaloneLoad_WrongName(name, type) ==
    [name |-> type, type |-> type, remappings |-> {}, my_argv |-> <<>>]

\* Line 179: what nodelet.load(nodeName, pkgAndNodelet, noRemap, noArgv) loads.
StandaloneLoad(name, type) ==
    [name |-> name, type |-> type, remappings |-> {}, my_argv |-> <<>>]

\* Lines 172-183: load the nodelet in-process; return 3 if that fails.
EmbeddedLoad ==
    /\ pc = "embeddedLoad"
    /\ \E loaded \in BOOLEAN :
          IF loaded
            THEN /\ embeddedLoaded' = StandaloneLoad(NodeName, pkgAndNodelet)
                 /\ log' = Logged("INFO", "loading_standalone", pkgAndNodelet)
                 /\ pc' = "spin"
                 /\ UNCHANGED exitCode
            ELSE /\ log' = Append(Logged("INFO", "loading_standalone", pkgAndNodelet),
                                  <<"ERROR", "standalone_failed", pkgAndNodelet>>)
                 /\ Exit(3)
                 /\ UNCHANGED embeddedLoaded
    /\ UNCHANGED <<argv, args, pkgAndNodelet, manager, bondId, remappings, paramServer,
                   rosOk, managerUp, requestShutdown, sigintHandler, shutdownBinding,
                   bondStarted, bondBroken, bondReleased, loadRequest, unloadRequest,
                   loadCalls, unloadCalls, unloadAttempts, unloadResult, leftLoopBy,
                   lastAck, served, lastTrigger>>

\* Lines 188, 235: ros::spin() returns once roscpp is shut down; main returns 0.
Spin ==
    /\ pc = "spin"
    /\ ~rosOk
    /\ Exit(0)
    /\ UNCHANGED <<argv, args, pkgAndNodelet, manager, bondId, remappings, paramServer,
                   rosOk, managerUp, requestShutdown, sigintHandler, shutdownBinding,
                   bondStarted, bondBroken, bondReleased, loadRequest, unloadRequest,
                   loadCalls, unloadCalls, unloadAttempts, unloadResult,
                   embeddedLoaded, leftLoopBy, log, lastAck, served, lastTrigger>>

(* ---------------------- NodeletInterface::loadNodelet ------------------ *)

\* Lines 101-110: the messages loadNodelet logs, one per remapping, in map order.
RemapLog(m) ==
    [i \in 1..Cardinality(m) |-> <<"INFO", "remap", <<RemapSources(m)[i], RemapTargetsOf(m)[i]>> >>]

\* Lines 113-116: getParam(nodeName, param); setParam(name, param). A missing
\* parameter leaves param invalid, which stores nothing.
CopyParams(server, from, to) == [server EXCEPT ![to] = server[from]]

\* Lines 97-122: collect the remappings, copy the parameters, create the client.
LoadPrepare ==
    /\ pc = "loadPrepare"
    /\ log' = Logged("INFO", "loading", <<NodeName, pkgAndNodelet, manager>>)
                  \o RemapLog(remappings)
    /\ paramServer' = CopyParams(paramServer, NodeName, NodeName)
    /\ pc' = "waitForExistence"
    /\ UNCHANGED <<exitCode, argv, args, pkgAndNodelet, manager, bondId, remappings,
                   rosOk, managerUp, requestShutdown, sigintHandler, shutdownBinding,
                   bondStarted, bondBroken, bondReleased, loadRequest, unloadRequest,
                   loadCalls, unloadCalls, unloadAttempts, unloadResult,
                   embeddedLoaded, leftLoopBy, lastAck, served, lastTrigger>>

\* Line 123: client.waitForExistence() with no timeout returns when the service is
\* advertised, or when roscpp is shut down.
WaitReturns == managerUp \/ ~rosOk
WaitForExistence ==
    /\ pc = "waitForExistence"
    /\ WaitReturns
    /\ pc' = "callLoad"
    /\ UNCHANGED <<exitCode, argv, args, pkgAndNodelet, manager, bondId, remappings,
                   paramServer, rosOk, managerUp, requestShutdown, sigintHandler,
                   shutdownBinding, bondStarted, bondBroken, bondReleased, loadRequest,
                   unloadRequest, loadCalls, unloadCalls, unloadAttempts, unloadResult,
                   embeddedLoaded, leftLoopBy, log, lastAck, served, lastTrigger>>

\* The request built without the caller's arguments.
LoadRequestOf_NoArgs(name, type, remaps, myArgv, bond) ==
    [name |-> name, type |-> type,
     remap_source_args |-> RemapSources(remaps),
     remap_target_args |-> RemapTargetsOf(remaps),
     my_argv |-> <<>>, bond_id |-> bond]

\* Lines 126-132: the request loadNodelet(name, type, manager, args, bond_id) sends.
LoadRequestOf(name, type, remaps, myArgv, bond) ==
    [name |-> name, type |-> type,
     remap_source_args |-> RemapSources(remaps),
     remap_target_args |-> RemapTargetsOf(remaps),
     my_argv |-> myArgv, bond_id |-> bond]

\* Line 204: the exit code of a failed remote load.
LoadFailureCode == 4

\* main carrying on although loadNodelet returned false.
AfterLoad_IgnoresFailure(success) == "installSigint"

\* A failed load called again.
AfterLoad_RetriesOnFailure(success) == IF success THEN "installSigint" ELSE "callLoad"

\* Lines 203-204: where main goes once loadNodelet has returned.
AfterLoad(success) == IF success THEN "installSigint" ELSE "done"

\* Lines 126-141, 203-204: call the load service; a failed call or a negative
\* response makes loadNodelet return false and main return 4.
CallLoad ==
    /\ pc = "callLoad"
    /\ loadRequest' = LoadRequestOf(NodeName, pkgAndNodelet, remappings, args, bondId)
    /\ loadCalls' = loadCalls + 1
    /\ \E accepted \in BOOLEAN :
          LET success == ServiceExists /\ accepted
          IN /\ pc' = AfterLoad(success)
             /\ IF success
                  THEN UNCHANGED <<exitCode, log>>
                  ELSE /\ exitCode' = LoadFailureCode
                       /\ log' = Logged("FATAL", "load_failed",
                                         <<NodeName, pkgAndNodelet, manager>>)
    /\ UNCHANGED <<argv, args, pkgAndNodelet, manager, bondId, remappings, paramServer,
                   rosOk, managerUp, requestShutdown, sigintHandler, shutdownBinding,
                   bondStarted, bondBroken, bondReleased, unloadRequest, unloadCalls,
                   unloadAttempts, unloadResult, embeddedLoaded, leftLoopBy, lastAck,
                   served, lastTrigger>>

(* --------------------- main(): the bridge and the loop ----------------- *)

\* Line 207: signal(SIGINT, nodeletLoaderSigIntHandler)
InstallSigintHandler ==
    /\ pc = "installSigint"
    /\ sigintHandler' = "custom"
    /\ pc' = "bindShutdown"
    /\ UNCHANGED <<exitCode, argv, args, pkgAndNodelet, manager, bondId, remappings,
                   paramServer, rosOk, managerUp, requestShutdown, shutdownBinding,
                   bondStarted, bondBroken, bondReleased, loadRequest, unloadRequest,
                   loadCalls, unloadCalls, unloadAttempts, unloadResult,
                   embeddedLoaded, leftLoopBy, log, lastAck, served, lastTrigger>>

\* Lines 208-209: unbind("shutdown"); bind("shutdown", shutdownCallback)
BindShutdown ==
    /\ pc = "bindShutdown"
    /\ shutdownBinding' = "custom"
    /\ pc' = "bondStart"
    /\ UNCHANGED <<exitCode, argv, args, pkgAndNodelet, manager, bondId, remappings,
                   paramServer, rosOk, managerUp, requestShutdown, sigintHandler,
                   bondStarted, bondBroken, bondReleased, loadRequest, unloadRequest,
                   loadCalls, unloadCalls, unloadAttempts, unloadResult,
                   embeddedLoaded, leftLoopBy, log, lastAck, served, lastTrigger>>

\* The bond used whatever the bond id.
BondActive_Always(id) == TRUE

\* Lines 211, 228: if (!bondId.empty())
BondActive(id) == id # <<>>

\* Lines 211-215: if (!bondId.empty()) bond.start(); start the spinner.
BondStart ==
    /\ pc = "bondStart"
    /\ bondStarted' = BondActive(bondId)
    /\ pc' = "loopCondition"
    /\ UNCHANGED <<exitCode, argv, args, pkgAndNodelet, manager, bondId, remappings,
                   paramServer, rosOk, managerUp, requestShutdown, sigintHandler,
                   shutdownBinding, bondBroken, bondReleased, loadRequest,
                   unloadRequest, loadCalls, unloadCalls, unloadAttempts, unloadResult,
                   embeddedLoaded, leftLoopBy, log, lastAck, served, lastTrigger>>

\* The loop condition with its negation lost.
LoopContinues_Negated(flag) == flag # 0

\* Line 216: while (!requestShutdown)
LoopContinues(flag) == flag = 0

\* The bond looked at before the flag.
LoopCondition_BondFirst ==
    /\ pc = "loopCondition"
    /\ IF bondId # <<>> /\ bondBroken
         THEN /\ pc' = "rosShutdown"
              /\ leftLoopBy' = "bond"
         ELSE IF requestShutdown = 0
                THEN /\ pc' = "bondCheck"
                     /\ UNCHANGED leftLoopBy
                ELSE /\ pc' = "unloadProbe"
                     /\ leftLoopBy' = "latch"
    /\ UNCHANGED <<exitCode, argv, args, pkgAndNodelet, manager, bondId, remappings,
                   paramServer, rosOk, managerUp, requestShutdown, sigintHandler,
                   shutdownBinding, bondStarted, bondBroken, bondReleased, loadRequest,
                   unloadRequest, loadCalls, unloadCalls, unloadAttempts, unloadResult,
                   embeddedLoaded, log, lastAck, served, lastTrigger>>

\* Line 216: evaluate the loop condition; leaving here falls through to line 227.
LoopCondition ==
    /\ pc = "loopCondition"
    /\ IF LoopContinues(requestShutdown)
         THEN /\ pc' = "bondCheck"
              /\ UNCHANGED leftLoopBy
         ELSE /\ pc' = "unloadProbe"
              /\ leftLoopBy' = "latch"
    /\ UNCHANGED <<exitCode, argv, args, pkgAndNodelet, manager, bondId, remappings,
                   paramServer, rosOk, managerUp, requestShutdown, sigintHandler,
                   shutdownBinding, bondStarted, bondBroken, bondReleased, loadRequest,
                   unloadRequest, loadCalls, unloadCalls, unloadAttempts, unloadResult,
                   embeddedLoaded, log, lastAck, served, lastTrigger>>

\* The loop's body without its check of the bond.
BondSeenBroken_Never(id, broken) == FALSE

\* The loop left on a bond that is still whole.
BondSeenBroken_Unbroken(id, broken) == BondActive(id) /\ ~broken

\* Line 218: if (!bondId.empty() && bond.isBroken())
BondSeenBroken(id, broken) == BondActive(id) /\ broken

\* The label placed before the unload instead of after it.
GotoShutdown_BeforeUnload == "unloadProbe"

\* Lines 221, 231: goto shutdown; the label stands after the unload and breakBond.
GotoShutdown == "rosShutdown"

\* Lines 218-222: the body's check of the bond.
BondCheck ==
    /\ pc = "bondCheck"
    /\ IF BondSeenBroken(bondId, bondBroken)
         THEN /\ log' = Logged("INFO", "bond_broken", <<>>)
              /\ leftLoopBy' = "bond"
              /\ pc' = GotoShutdown
         ELSE /\ pc' = "sleep"
              /\ UNCHANGED <<log, leftLoopBy>>
    /\ UNCHANGED <<exitCode, argv, args, pkgAndNodelet, manager, bondId, remappings,
                   paramServer, rosOk, managerUp, requestShutdown, sigintHandler,
                   shutdownBinding, bondStarted, bondBroken, bondReleased, loadRequest,
                   unloadRequest, loadCalls, unloadCalls, unloadAttempts, unloadResult,
                   embeddedLoaded, lastAck, served, lastTrigger>>

\* Line 223: ros::WallDuration(0.1).sleep()
Sleep ==
    /\ pc = "sleep"
    /\ pc' = "loopCondition"
    /\ UNCHANGED <<exitCode, argv, args, pkgAndNodelet, manager, bondId, remappings,
                   paramServer, rosOk, managerUp, requestShutdown, sigintHandler,
                   shutdownBinding, bondStarted, bondBroken, bondReleased, loadRequest,
                   unloadRequest, loadCalls, unloadCalls, unloadAttempts, unloadResult,
                   embeddedLoaded, leftLoopBy, log, lastAck, served, lastTrigger>>

(* --------------------- NodeletInterface::unloadNodelet ----------------- *)

\* Lines 227, 65-75: main calls unloadNodelet(nodeName, manager); the first probe
\* of the unload service. If it is missing, unloadNodelet warns and returns false.
\* unloadNodelet without its early return.
AfterProbe_NoEarlyReturn(exists) == "unloadCall"

\* A missing unload service sends main back into the loop.
AfterProbe_BackToLoop(exists) == IF exists THEN "unloadCall" ELSE "loopCondition"

\* Lines 69-75: where unloadNodelet goes after the first probe.
AfterProbe(exists) == IF exists THEN "unloadCall" ELSE "breakBond"
UnloadProbe ==
    /\ pc = "unloadProbe"
    /\ unloadAttempts' = unloadAttempts + 1
    /\ pc' = AfterProbe(ServiceExists)
    /\ IF ServiceExists
         THEN /\ log' = Logged("INFO", "unloading", <<NodeName, manager>>)
              /\ UNCHANGED unloadResult
         ELSE /\ log' = Append(Logged("INFO", "unloading", <<NodeName, manager>>),
                               <<"WARN", "no_unload_service", manager>>)
              /\ unloadResult' = "false"
    /\ UNCHANGED <<exitCode, argv, args, pkgAndNodelet, manager, bondId, remappings,
                   paramServer, rosOk, managerUp, requestShutdown, sigintHandler,
                   shutdownBinding, bondStarted, bondBroken, bondReleased, loadRequest,
                   unloadRequest, loadCalls, unloadCalls, embeddedLoaded, leftLoopBy,
                   lastAck, served, lastTrigger>>

\* Lines 77-82, 90: send the unload request; success returns true.
UnloadCall ==
    /\ pc = "unloadCall"
    /\ unloadRequest' = [name |-> NodeName]
    /\ unloadCalls' = unloadCalls + 1
    /\ \E accepted \in BOOLEAN :
          IF ServiceExists /\ accepted
            THEN /\ unloadResult' = "true"
                 /\ pc' = "breakBond"
            ELSE /\ pc' = "unloadRecheck"
                 /\ UNCHANGED unloadResult
    /\ UNCHANGED <<exitCode, argv, args, pkgAndNodelet, manager, bondId, remappings,
                   paramServer, rosOk, managerUp, requestShutdown, sigintHandler,
                   shutdownBinding, bondStarted, bondBroken, bondReleased, loadRequest,
                   loadCalls, unloadAttempts, embeddedLoaded, leftLoopBy, log, lastAck,
                   served, lastTrigger>>

\* The FATAL message logged without the second probe.
UnloadRecheck_AlwaysFatal ==
    /\ pc = "unloadRecheck"
    /\ log' = Logged("FATAL", "unload_failed", <<NodeName, manager>>)
    /\ unloadResult' = "false"
    /\ pc' = "breakBond"
    /\ UNCHANGED <<exitCode, argv, args, pkgAndNodelet, manager, bondId, remappings,
                   paramServer, rosOk, managerUp, requestShutdown, sigintHandler,
                   shutdownBinding, bondStarted, bondBroken, bondReleased, loadRequest,
                   unloadRequest, loadCalls, unloadCalls, unloadAttempts,
                   embeddedLoaded, leftLoopBy, lastAck, served, lastTrigger>>

\* Lines 84-88: after a failed call, a FATAL message only if the service is still there.
UnloadRecheck ==
    /\ pc = "unloadRecheck"
    /\ log' = IF ServiceExists THEN Logged("FATAL", "unload_failed", <<NodeName, manager>>)
                               ELSE log
    /\ unloadResult' = "false"
    /\ pc' = "breakBond"
    /\ UNCHANGED <<exitCode, argv, args, pkgAndNodelet, manager, bondId, remappings,
                   paramServer, rosOk, managerUp, requestShutdown, sigintHandler,
                   shutdownBinding, bondStarted, bondBroken, bondReleased, loadRequest,
                   unloadRequest, loadCalls, unloadCalls, unloadAttempts,
                   embeddedLoaded, leftLoopBy, lastAck, served, lastTrigger>>

(* --------------------------- main(): the end --------------------------- *)

\* Lines 228-229: if (!bondId.empty()) bond.breakBond()
BreakBond ==
    /\ pc = "breakBond"
    /\ bondReleased' = BondActive(bondId)
    /\ bondBroken' = (bondBroken \/ BondActive(bondId))
    /\ pc' = "rosShutdown"
    /\ UNCHANGED <<exitCode, argv, args, pkgAndNodelet, manager, bondId, remappings,
                   paramServer, rosOk, managerUp, requestShutdown, sigintHandler,
                   shutdownBinding, bondStarted, loadRequest, unloadRequest, loadCalls,
                   unloadCalls, unloadAttempts, unloadResult, embeddedLoaded,
                   leftLoopBy, log, lastAck, served, lastTrigger>>

\* Lines 231-235: shutdown: ros::shutdown(); return 0
RosShutdown ==
    /\ pc = "rosShutdown"
    /\ rosOk' = FALSE
    /\ Exit(0)
    /\ UNCHANGED <<argv, args, pkgAndNodelet, manager, bondId, remappings, paramServer,
                   managerUp, requestShutdown, sigintHandler, shutdownBinding,
                   bondStarted, bondBroken, bondReleased, loadRequest, unloadRequest,
                   loadCalls, unloadCalls, unloadAttempts, unloadResult,
                   embeddedLoaded, leftLoopBy, log, lastAck, served, lastTrigger>>

(* ----------------------------- specification --------------------------- *)

\* The steps of main().
MainStep ==
    \/ CheckArgs
    \/ ChooseMode
    \/ EmbeddedLoad
    \/ Spin
    \/ LoadPrepare
    \/ WaitForExistence
    \/ CallLoad
    \/ InstallSigintHandler
    \/ BindShutdown
    \/ BondStart
    \/ LoopCondition
    \/ BondCheck
    \/ Sleep
    \/ UnloadProbe
    \/ UnloadCall
    \/ UnloadRecheck
    \/ BreakBond
    \/ RosShutdown

Next ==
    \/ MainStep
    \/ Sigint
    \/ ShutdownRequest
    \/ ManagerStart
    \/ ManagerCrash
    \/ BondBreaks

Spec == Init /\ [][Next]_vars

\* main() keeps running whenever it can take a step; signals, requests, the
\* manager and the bond's peer are under no obligation. The remapping table plays
\* no part in whether main() ends, so the fair runs start from an empty one.
FairInit == Init /\ remappings = {}
FairSpec == FairInit /\ [][Next]_vars /\ WF_vars(MainStep)

(* ------------------------- vocabulary of the claims -------------------- *)

\* The launch names a manager (remote mode) / names none (standalone).
RemoteLaunch == Len(argv) >= 3
StandaloneLaunch == Len(argv) = 2
\* The launch gives --no-bond right after the manager.
NoBondLaunch == Len(argv) >= 4 /\ argv[4] = NoBondFlag

\* The log holds a message of this kind.
HasLogged(level, what) == \E i \in 1..Len(log) : log[i][1] = level /\ log[i][2] = what

\* A SIGINT or shutdown request is served in this step by one of the two handlers
\* this program installs.
TriggerStep == served' = served + 1 /\ lastTrigger'.handler = "custom"

\* The reasons the log reports, in order.
RECURSIVE ReasonsIn(_)
ReasonsIn(l) ==
    IF l = <<>> THEN <<>>
    ELSE IF Head(l)[2] = "shutdown_request" THEN <<Head(l)[3]>> \o ReasonsIn(Tail(l))
    ELSE ReasonsIn(Tail(l))

(* --------------------------------- C1 ---------------------------------- *)

LoadFailed == HasLogged("FATAL", "load_failed")

\* C2: a failed load RPC ends the process with code 4, and then no unload was or
\* will be attempted, no handler was replaced and the bond was not started; code 4
\* has no other cause.
C2_LoadFailureExits4 ==
    /\ LoadFailed =>
          /\ pc = "done"
          /\ exitCode = 4
          /\ loadCalls = 1
          /\ unloadAttempts = 0
          /\ unloadCalls = 0
          /\ sigintHandler = "roscpp"
          /\ shutdownBinding = "roscpp"
          /\ ~bondStarted
          /\ requestShutdown = 0
    /\ exitCode = 4 => LoadFailed

C2_Witness ==
    /\ LoadFailed
    /\ exitCode = 4
    /\ managerUp
    /\ rosOk
    /\ bondId # <<>>

(* --------------------------------- C3 ---------------------------------- *)

\* C3: when the loop condition is evaluated with the latch set, the loop is left
\* towards the unload; a run that left the loop this way makes exactly one unload
\* attempt and returns 0, whatever unloadNodelet returned.
C3_LatchLeavesLoopAndUnloads ==
    /\ [][(pc = "loopCondition" /\ requestShutdown = 1 /\ pc' # pc)
            => (pc' = "unloadProbe" /\ leftLoopBy' = "latch")]_vars
    /\ [](leftLoopBy = "latch" =>
            /\ pc \in {"unloadProbe", "unloadCall", "unloadRecheck", "breakBond",
                       "rosShutdown", "done"}
            /\ unloadAttempts = (IF pc = "unloadProbe" THEN 0 ELSE 1)
            /\ pc = "done" => (exitCode = 0 /\ unloadResult \in {"true", "false"}))

C3_Witness ==
    /\ pc = "done"
    /\ leftLoopBy = "latch"
    /\ unloadAttempts = 1
    /\ unloadResult = "false"
    /\ HasLogged("FATAL", "unload_failed")
    /\ exitCode = 0

(* --------------------------------- C4 ---------------------------------- *)

\* C4 as stated, for the cases it names: in a fair run in remote mode, whenever the
\* manager is gone (it crashed, or never advertised its services) the process
\* reaches the terminal state, unless the manager comes (back) up first.
ManagerGone == RemoteLaunch /\ pc \notin {"start", "mode", "done"} /\ ~managerUp
C4_RemoteAlwaysTerminates == ManagerGone ~> (pc = "done" \/ managerUp)

\* C4 amended: a fair run in remote mode reaches the terminal state once the wait
\* for the load service has returned and, if the load succeeded, once the latch is
\* set or a started bond is broken. (Nothing else ends the wait or the loop.)
Triggered == requestShutdown = 1 \/ (bondStarted /\ bondBroken)
C4_TerminatesOnceTriggered ==
    /\ (pc = "callLoad") ~> (pc = "done" \/ pc = "loopCondition")
    /\ Triggered ~> (pc = "done")

C4_Witness ==
    /\ pc = "done"
    /\ exitCode = 0
    /\ RemoteLaunch
    /\ Triggered
    /\ ~managerUp

(* --------------------------------- C5 ---------------------------------- *)

\* C5: a launch without a manager never calls the load or unload service and never
\* has a bond; what it loads in-process is the given type under the node's own name.
C5_StandaloneIssuesNoRpc ==
    StandaloneLaunch =>
        /\ pc \in {"start", "mode", "embeddedLoad", "spin", "done"}
        /\ loadCalls = 0
        /\ unloadCalls = 0
        /\ unloadAttempts = 0
        /\ loadRequest = NoRequest
        /\ unloadRequest = NoRequest
        /\ bondId = <<>>
        /\ ~bondStarted
        /\ pc = "spin" => embeddedLoaded # NoRequest
        /\ embeddedLoaded # NoRequest =>
              (embeddedLoaded.name = NodeName /\ embeddedLoaded.type = argv[2])

C5_Witness ==
    /\ StandaloneLaunch
    /\ pc = "done"
    /\ exitCode = 0
    /\ embeddedLoaded # NoRequest

(* --------------------------------- C6 ---------------------------------- *)

\* C6: with --no-bond the bond is never started, the load request carries an empty
\* bond id, and the loop is never left because of the bond.
C6_NoBondMeansNoLease ==
    NoBondLaunch =>
        /\ ~bondStarted
        /\ ~bondBroken
        /\ ~bondReleased
        /\ pc \notin {"start", "mode"} => bondId = <<>>
        /\ loadRequest # NoRequest => loadRequest.bond_id = <<>>
        /\ leftLoopBy # "bond"

C6_Witness ==
    /\ NoBondLaunch
    /\ pc = "done"
    /\ leftLoopBy = "latch"
    /\ loadRequest # NoRequest
    /\ ~managerUp

(* --------------------------------- C7 ---------------------------------- *)

\* C7 as stated: every shutdown request served by the installed callback sets the
\* latch, whatever it carries.
C7_EveryRequestSetsLatch ==
    [][\A params \in ShutdownParams :
          (shutdownBinding = "custom" /\ ServeShutdown(params)) => requestShutdown' = 1]_vars

\* C7 amended: a shutdown request served by the installed callback sets the latch
\* if and only if it carries an array of at least two elements; any other request
\* leaves the latch as it was. Neither kind ends the process or shuts roscpp down.
C7_RequestWithReasonSetsLatch ==
    [][\A params \in ShutdownParams :
          (shutdownBinding = "custom" /\ ServeShutdown(params)) =>
              /\ requestShutdown' =
                    (IF params.type = "array" /\ Len(params.items) >= 2
                       THEN 1 ELSE requestShutdown)
              /\ pc' = pc
              /\ exitCode' = exitCode
              /\ rosOk' = rosOk]_vars

C7_Witness ==
    /\ lastTrigger = [handler |-> "custom", params |-> NonArrayParams]
    /\ requestShutdown = 0
    /\ rosOk
    /\ pc = "sleep"

(* --------------------------------- C8 ---------------------------------- *)

\* C8 as stated: once the latch is set, a further trigger changes nothing that can
\* be observed: the latch stays set and no further reason is reported.
C8_LaterTriggersChangeNothing ==
    [][(requestShutdown = 1 /\ TriggerStep) =>
          (requestShutdown' = 1 /\ ReasonsIn(log') = ReasonsIn(log))]_vars

\* C8 amended: the latch is never cleared, and a trigger served while it is set
\* changes neither the latch nor anything main() reads or owns; the flag carries
\* no reason, and each request with a reason still logs its own.
C8_LatchIsIdempotent ==
    /\ [][requestShutdown = 1 => requestShutdown' = 1]_vars
    /\ [][(requestShutdown = 1 /\ TriggerStep) =>
            UNCHANGED <<mainVars, requestShutdown, rosOk, managerUp, bondBroken>>]_vars

C8_Witness ==
    /\ requestShutdown = 1
    /\ served = 2
    /\ ReasonsIn(log) = << <<"r1">>, <<"r2">> >>
    /\ pc = "done"

(* --------------------------------- C9 ---------------------------------- *)

ProbeFoundAbsent == HasLogged("WARN", "no_unload_service")

\* C10: when the first probe finds no unload service, no unload request is sent,
\* nothing worse than the warning is logged, main carries on as after a successful
\* unload and returns 0.
C10_AbsentServiceIsBenign ==
    ProbeFoundAbsent =>
        /\ unloadAttempts = 1
        /\ unloadCalls = 0
        /\ unloadRequest = NoRequest
        /\ ~HasLogged("FATAL", "unload_failed")
        /\ pc \in {"breakBond", "rosShutdown", "done"}
        /\ pc = "done" => exitCode = 0

C10_Witness ==
    /\ ProbeFoundAbsent
    /\ pc = "done"
    /\ exitCode = 0
    /\ unloadCalls = 0
    /\ bondReleased

(* --------------------------------- C11 --------------------------------- *)

\* C11: every shutdown request served by the installed callback gets the same
\* acknowledgement (1, "", 0), whether its value is an array with a reason, a
\* shorter array or not an array, and so whether or not it sets the latch.
C11_EveryRequestAcknowledged ==
    [][\A params \in ShutdownParams :
          (shutdownBinding = "custom" /\ ServeShutdown(params)) =>
              lastAck' = <<1, <<>>, 0>>]_vars

C11_Witness ==
    /\ lastTrigger = [handler |-> "custom", params |-> ArrayParams(<< <<"caller">> >>)]
    /\ served = 1
    /\ lastAck = <<1, <<>>, 0>>
    /\ requestShutdown = 0

(* --------------------------------- C12 --------------------------------- *)

\* C12: in every load request the source and the target vector both have the
\* length of the remapping table, and position i of the two holds the i-th
\* remapping in the table's iteration order (ascending keys): each position
\* is a pair of the table, the keys ascend, and every pair of the table has a
\* position.  For the table {(a,b), (c,d)} the vectors are [a,c] and [b,d].
C12_RemapVectorsArePaired ==
    loadRequest # NoRequest =>
        LET src == loadRequest.remap_source_args
            tgt == loadRequest.remap_target_args
        IN /\ Len(src) = Cardinality(remappings)
           /\ Len(tgt) = Cardinality(remappings)
           /\ \A i \in 1..Len(src) : <<src[i], tgt[i]>> \in remappings
           /\ \A i \in 1..Len(src) : \A j \in 1..Len(src) :
                  i < j => KeyRank(src[i]) < KeyRank(src[j])
           /\ \A p \in remappings : \E i \in 1..Len(src) : p = <<src[i], tgt[i]>>
           /\ remappings = {<< <<"a">>, <<"b">> >>, << <<"c">>, <<"d">> >>} =>
                  /\ src = << <<"a">>, <<"c">> >>
                  /\ tgt = << <<"b">>, <<"d">> >>

C12_Witness ==
    /\ remappings = {<< <<"a">>, <<"b">> >>, << <<"c">>, <<"d">> >>}
    /\ loadRequest # NoRequest
    /\ loadRequest.remap_source_args = << <<"a">>, <<"c">> >>
    /\ loadRequest.remap_target_args = << <<"b">>, <<"d">> >>

(* --------------------------------- C13 --------------------------------- *)

\* Where the nodelet's own arguments start on the command line: after the
\* manager, and after the "--no-bond" flag when that is the first of them.
FirstExtraArg == IF NoBondLaunch THEN 5 ELSE 4

\* C13: the load request carries the type given on the command line, this
\* process's name, and as my_argv exactly the arguments after the manager
\* (and after a leading "--no-bond"), in their original order; the unload
\* request names the same instance as the load request.
C13_RequestsCarryTheArguments ==
    /\ loadRequest # NoRequest =>
           /\ loadRequest.type = argv[2]
           /\ loadRequest.name = NodeName
           /\ loadRequest.my_argv = SubSeq(argv, FirstExtraArg, Len(argv))
    /\ unloadRequest # NoRequest =>
           /\ loadRequest # NoRequest
           /\ unloadRequest.name = loadRequest.name

C13_Witness ==
    /\ Len(argv) = 5
    /\ loadRequest # NoRequest
    /\ loadRequest.my_argv = << <<"arg">>, NoBondFlag >>
    /\ unloadRequest # NoRequest
    /\ unloadRequest.name = loadRequest.name

(* --------------------------------- C14 --------------------------------- *)

\* What each terminal condition looks like from outside.
TypeMissing == Len(argv) = 1
TypeMalformed == Len(argv) >= 2 /\ \A i \in 1..Len(argv[2]) : argv[2][i] # "/"
EmbeddedLoadFailed == HasLogged("ERROR", "standalone_failed")
NothingAttempted ==
    /\ ~HasLogged("INFO", "loading_standalone")
    /\ embeddedLoaded = NoRequest
    /\ loadCalls = 0 /\ loadRequest = NoRequest
    /\ bondId = <<>> /\ ~bondStarted
LoadSucceeded ==
    \/ embeddedLoaded # NoRequest
    \/ loadCalls = 1 /\ ~LoadFailed

\* C14: the exit code tells the terminal condition.  A missing type ends with 1
\* and a type without '/' with 2, both with no embedded load, load request or
\* bond attempted; a failed embedded load ends with 3, a failed load request
\* with 4; a run that got past a successful load ends with 0; and each code is
\* given for its condition only.
C14_ExitCodeTellsTheCondition ==
    /\ (pc = "done") = (exitCode # -1)
    /\ pc = "done" =>
          /\ exitCode \in {0, 1, 2, 3, 4}
          /\ (exitCode = 1) = TypeMissing
          /\ (exitCode = 2) = TypeMalformed
          /\ (exitCode = 3) = EmbeddedLoadFailed
          /\ (exitCode = 4) = LoadFailed
          /\ (exitCode = 0) = LoadSucceeded
          /\ exitCode \in {1, 2} => NothingAttempted
    /\ (TypeMissing \/ TypeMalformed) => NothingAttempted

C14_Witness ==
    /\ pc = "done"
    /\ exitCode = 3
    /\ StandaloneLaunch
    /\ EmbeddedLoadFailed
    /\ ~LoadSucceeded

(* --------------------------------- C15 --------------------------------- *)

\* The supervisor state a position of main() belongs to: 0 STARTING (up to the
\* return of loadNodelet), 1 LOADED (lines 206-215), 2 MONITORING (the loop,
\* 216-224), 3 SHUTTING_DOWN (226-232), 4 TERMINATED (the return).
LoopPositions == {"loopCondition", "bondCheck", "sleep"}
Phase(p) ==
    CASE p \in {"start", "mode", "embeddedLoad", "spin", "loadPrepare",
                "waitForExistence", "callLoad"} -> 0
      [] p \in {"installSigint", "bindShutdown", "bondStart"} -> 1
      [] p \in LoopPositions -> 2
      [] p \in {"unloadProbe", "unloadCall", "unloadRecheck", "breakBond",
                "rosShutdown"} -> 3
      [] p = "done" -> 4

\* C15: the supervisor state never moves backwards; once the loop has been left
\* it is not entered again, and once unload has been attempted no load request
\* is sent any more.
C15_StateOnlyMovesForward ==
    [][/\ Phase(pc') >= Phase(pc)
       /\ (Phase(pc) > 2 \/ leftLoopBy # "none") => pc' \notin LoopPositions
       /\ unloadAttempts > 0 => loadCalls' = loadCalls /\ loadRequest' = loadRequest]_vars

C15_Witness ==
    /\ pc = "done"
    /\ exitCode = 0
    /\ leftLoopBy = "latch"
    /\ loadCalls = 1
    /\ unloadAttempts = 1
    /\ unloadCalls = 0
    /\ ~bondStarted

(* --------------------------------- C16 --------------------------------- *)

\* C16: a run sends at most one load request and at most one unload request
\* (and probes for the unload service at most once); after a failed load no
\* further request of either kind is sent, and a failed unload is not sent
\* again.
C16_AtMostOneLoadAndUnload ==
    /\ loadCalls <= 1
    /\ unloadAttempts <= 1
    /\ unloadCalls <= unloadAttempts
    /\ LoadFailed => loadCalls = 1 /\ unloadAttempts = 0 /\ pc = "done"
    /\ unloadResult = "false" => unloadCalls <= 1 /\ pc \in {"breakBond", "rosShutdown", "done"}

C16_Witness ==
    /\ pc = "done"
    /\ loadCalls = 1
    /\ unloadCalls = 1
    /\ unloadResult = "false"
    /\ HasLogged("FATAL", "unload_failed")

(* --------------------------------- C17 --------------------------------- *)

\* The two exit conditions of the loop, and a step of main() inside the loop.
LeaseBroken == bondStarted /\ bondBroken
LoopStep == pc \in LoopPositions /\ pc' # pc

\* C17: a step leaves the loop only with the latch set or with a started bond
\* broken.  With the latch unset and no started bond broken, the next step of
\* the loop is the next part of a poll iteration (condition, bond check,
\* sleep, condition again): it attempts no unload, releases no bond, shuts
\* nothing down and sets no exit code.
C17_LoopLeftOnlyOnTrigger ==
    [][LoopStep =>
          /\ pc' \notin LoopPositions => (requestShutdown = 1 \/ LeaseBroken)
          /\ (requestShutdown = 0 /\ ~LeaseBroken) =>
                /\ pc = "loopCondition" => pc' = "bondCheck"
                /\ pc = "bondCheck" => pc' = "sleep"
                /\ pc = "sleep" => pc' = "loopCondition"
                /\ leftLoopBy' = "none"
                /\ unloadAttempts' = 0 /\ unloadCalls' = 0
                /\ ~bondReleased'
                /\ rosOk' = rosOk
                /\ exitCode' = -1]_vars

C17_Witness ==
    /\ pc = "sleep"
    /\ requestShutdown = 0
    /\ bondStarted /\ ~bondBroken
    /\ served = 2
    /\ lastTrigger = [handler |-> "custom", params |-> NonArrayParams]
    /\ leftLoopBy = "none"

(* --------------------------------- C18 --------------------------------- *)

\* The unload request was sent and failed, and the second probe has been made.
UnloadCallFailed == unloadCalls = 1 /\ unloadResult = "false"
SevereLogged ==
    \E i \in 1..Len(log) : log[i][1] \in {"FATAL", "ERROR"}

\* C18: after a failed unload request the service is probed again.  If it is
\* gone, nothing is logged; if it is still advertised, the FATAL message is
\* logged.  Either way unloadNodelet returns false, main goes on to release
\* the bond and shut down, and the exit code is 0.
C18_FailedUnloadIsRechecked ==
    /\ [][(pc = "unloadRecheck" /\ pc' # pc) =>
             /\ ServiceExists =>
                   log' = Append(log, <<"FATAL", "unload_failed", <<NodeName, manager>> >>)
             /\ ~ServiceExists => log' = log /\ ~SevereLogged'
             /\ unloadResult' = "false"
             /\ pc' = "breakBond"
             /\ exitCode' = -1]_vars
    /\ [](UnloadCallFailed =>
             /\ pc \in {"breakBond", "rosShutdown", "done"}
             /\ pc = "done" => exitCode = 0)

C18_Witness ==
    /\ UnloadCallFailed
    /\ ~SevereLogged
    /\ pc = "done"
    /\ exitCode = 0
    /\ bondReleased

(* --------------------------------- C19 --------------------------------- *)

\* Both exit conditions hold when the loop condition is about to be evaluated.
BothTriggersAtCondition == pc = "loopCondition" /\ requestShutdown = 1 /\ LeaseBroken

\* C19: when the latch is set and the started bond is broken at the evaluation
\* of the loop condition, the flag wins: main falls out of the loop towards
\* unloadNodelet and writes no "Bond broken" message, and a run that left the
\* loop this way attempts the unload and releases its bond before it ends.
\* The bond check is entered only from a loop condition that saw the flag
\* unset, and only the bond check takes the bond's way out.
C19_LatchObservedFirst ==
    /\ [][/\ (BothTriggersAtCondition /\ pc' # pc) =>
                /\ pc' = "unloadProbe"
                /\ leftLoopBy' = "latch"
                /\ log' = log
          /\ (pc' = "bondCheck" /\ pc # "bondCheck") =>
                pc = "loopCondition" /\ requestShutdown = 0
          /\ (leftLoopBy' = "bond" /\ leftLoopBy # "bond") =>
                pc = "bondCheck" /\ LeaseBroken]_vars
    /\ []((leftLoopBy = "latch" /\ pc = "done") =>
             /\ unloadAttempts = 1
             /\ bondStarted => bondReleased
             /\ ~HasLogged("INFO", "bond_broken"))

C19_Witness ==
    /\ pc = "unloadProbe"
    /\ leftLoopBy = "latch"
    /\ requestShutdown = 1
    /\ LeaseBroken
    /\ ~bondReleased
    /\ unloadAttempts = 0

(* --------------------------------- C20 --------------------------------- *)

\* main() has not yet got a successful return of loadNodelet.
Starting == Phase(pc) = 0

\* C20: the flag is set only in a run whose load request succeeded and whose
\* SIGINT handler has been installed; before that both triggers are served by
\* roscpp's own handlers, which leave the flag alone.  So a SIGINT or shutdown
\* request served before loadNodelet returns (the wait for the load service
\* included) neither sets the flag nor brings an unload attempt: an unload is
\* attempted only with the flag set.
C20_LatchOnlyAfterLoad ==
    /\ requestShutdown = 1 =>
          /\ RemoteLaunch
          /\ loadCalls = 1 /\ loadRequest # NoRequest /\ ~LoadFailed
          /\ sigintHandler = "custom"
          /\ ~Starting
    /\ Starting =>
          /\ sigintHandler = "roscpp" /\ shutdownBinding = "roscpp"
          /\ requestShutdown = 0
          /\ unloadAttempts = 0 /\ unloadRequest = NoRequest
    /\ (unloadAttempts > 0 \/ unloadRequest # NoRequest) => requestShutdown = 1
    /\ (LoadFailed \/ StandaloneLaunch) => (requestShutdown = 0 /\ unloadAttempts = 0)

C20_Witness ==
    /\ pc = "done"
    /\ exitCode = 4
    /\ served = 2
    /\ lastTrigger = [handler |-> "roscpp", signal |-> "SIGINT"]
    /\ ~rosOk
    /\ requestShutdown = 0
    /\ unloadAttempts = 0

====
